---- MODULE Spec2Model ----
(***************************************************************************)
(* A model of purlinfo: the Service contract, the EcosystemsService        *)
(* implementation (one HTTP lookup, status taxonomy, JSON decoding,        *)
(* conversion to PackageInfo) and runWithService, which drives one lookup  *)
(* under a timeout and reports or renders the outcome.                     *)
(*                                                                         *)
(* Text (error messages, stderr, stdout) is a sequence of tokens; a JSON   *)
(* document is a tree of tagged values; a Go slice or pointer is a record  *)
(* carrying its nil-ness next to its contents.                             *)
(***************************************************************************)
EXTENDS Integers, Sequences, FiniteSets, TLC

(***************************************************************************)
(* Bounds of the model.                                                    *)
(***************************************************************************)
\* Largest number of entries in an upstream JSON array.
MaxEntries == 2
\* The longest short write standard output makes before failing, in tokens.
MaxShortWrite == 2
\* Most redirects the HTTP client follows within one client.Do.
MaxRedirects == 1

(***************************************************************************)
(* Program constants.                                                      *)
(***************************************************************************)
exitSuccess == 0
exitInvalidArgs == 1
exitInvalidPurl == 2
exitRuntimeError == 3
StatusOK == 200
StatusNotFound == 404
StatusTooManyRequests == 429
StatusBadGateway == 502
StatusServiceUnavailable == 503
StatusGatewayTimeout == 504

ecosystemsBaseURL == "https://packages.ecosyste.ms"
ecosystemsAPIPath == "/api/v1/packages/lookup"

(***************************************************************************)
(* Go values: slices, pointers, errors.                                    *)
(***************************************************************************)
\* A []string: nil, or a (possibly empty) sequence.
NilSlice == [isNil |-> TRUE, elems |-> <<>>]
Slice(s) == [isNil |-> FALSE, elems |-> s]

\* A *string: nil, or a pointer to a (possibly empty) string.
NilPtr == [isNil |-> TRUE, val |-> ""]
stringPtr(s) == [isNil |-> FALSE, val |-> s]

\* An error: nil, or a message (tokens) plus the set of errors it matches
\* under errors.Is (itself and everything it wraps with %w).
NilError == [isNil |-> TRUE, text |-> <<>>, is |-> {}]
ErrorsNew(msg) == [isNil |-> FALSE, text |-> <<msg>>, is |-> {msg}]
\* fmt.Errorf(prefix + "%w", err)
ErrorfWrap(prefix, err) == [isNil |-> FALSE, text |-> <<prefix>> \o err.text, is |-> err.is]
\* fmt.Errorf("%w: %w", a, b)
ErrorfWrap2(a, b) == [isNil |-> FALSE, text |-> a.text \o <<": ">> \o b.text, is |-> a.is \cup b.is]
\* fmt.Errorf("%w" + suffix, err)
ErrorfWrapSuffix(err, suffix) == [isNil |-> FALSE, text |-> err.text \o <<suffix>>, is |-> err.is]
\* fmt.Errorf(prefix + "%d", n): wraps nothing
ErrorfStatus(prefix, n) == [isNil |-> FALSE, text |-> <<prefix, ToString(n)>>, is |-> {}]
errorsIs(err, target) == ~err.isNil /\ target.is \subseteq err.is /\ target.is # {}

ErrPackageNotFound == ErrorsNew("package not found")
ErrInvalidResponse == ErrorsNew("invalid API response")

\* ctx.Err() of a context that is done, and a connection lost under a read.
contextDeadlineExceeded == ErrorsNew("context deadline exceeded")
contextCanceled == ErrorsNew("context canceled")
connectionReset == ErrorsNew("read tcp: connection reset by peer")

(***************************************************************************)
(* JSON documents, as the upstream sends them.                             *)
(***************************************************************************)
\* A JSON member of an object: absent, or one of the JSON value kinds.
JAbsent == [t |-> "absent", s |-> "", a |-> <<>>]
JNull == [t |-> "null", s |-> "", a |-> <<>>]
JNum == [t |-> "number", s |-> "", a |-> <<>>]
JStr(x) == [t |-> "string", s |-> x, a |-> <<>>]
JArr(x) == [t |-> "array", s |-> "", a |-> x]

\* An element of the upstream array: an object with the seven members the
\* API documents, or a JSON value of another kind (null, number).
JObject(n, v, l, h, r, d, u) ==
  [kind |-> "object", name |-> n, latest_release_number |-> v, normalized_licenses |-> l,
   homepage |-> h, repository_url |-> r, description |-> d, documentation_url |-> u]
JNonObject(k) ==
  [kind |-> k, name |-> JAbsent, latest_release_number |-> JAbsent, normalized_licenses |-> JAbsent,
   homepage |-> JAbsent, repository_url |-> JAbsent, description |-> JAbsent,
   documentation_url |-> JAbsent]

\* A response body: no bytes at all, bytes that are not JSON, or a JSON
\* value (object, null, array of elements); or a body whose Read fails
\* before the value is complete.
Body(k, es) == [kind |-> k, elems |-> es, readErr |-> NilError]
BrokenBody(e) == [kind |-> "broken", elems |-> <<>>, readErr |-> e]

(***************************************************************************)
(* encoding/json decoding into []ecosystemsPackagesLookupResponse.         *)
(***************************************************************************)
ioEOF == ErrorsNew("EOF")
jsonSyntaxError == ErrorsNew("invalid character 'i' looking for beginning of object key string")
jsonUnmarshalTypeError == ErrorsNew("json: cannot unmarshal value into Go value")

\* A string field: a JSON string is stored, null and absent leave the zero
\* value, any other kind is a type error that leaves the zero value.
decodeString(j) == IF j.t = "string" THEN j.s ELSE ""
stringTypeError(j) == j.t \notin {"string", "null", "absent"}

\* A []string field: a JSON array gives a non-nil slice (empty for []),
\* null and absent leave nil, any other kind is a type error.
decodeStringSlice(j) == IF j.t = "array" THEN Slice(j.a) ELSE NilSlice
sliceTypeError(j) == j.t \notin {"array", "null", "absent"}

\* The struct has three fields, so only three members of an object are read
\* and every other member is skipped.
ecosystemsPackagesLookupResponse(e) ==
  [Name |-> IF e.kind = "object" THEN decodeString(e.name) ELSE "",
   LatestReleaseNumber |-> IF e.kind = "object" THEN decodeString(e.latest_release_number) ELSE "",
   NormalizedLicenses |-> IF e.kind = "object" THEN decodeStringSlice(e.normalized_licenses)
                          ELSE NilSlice]

elementTypeError(e) ==
  \/ e.kind \notin {"object", "null"}
  \/ /\ e.kind = "object"
     /\ \/ stringTypeError(e.name)
        \/ stringTypeError(e.latest_release_number)
        \/ sliceTypeError(e.normalized_licenses)

\* json.NewDecoder(body).Decode(&results): the whole value is scanned first,
\* so a syntax error leaves results untouched; a type error is remembered
\* while the remaining elements are still decoded.  An error of the body's
\* Read (other than EOF) is returned as it is.
jsonDecode(body) ==
  CASE body.kind = "broken" -> [results |-> NilSlice, err |-> body.readErr]
    [] body.kind = "empty" -> [results |-> NilSlice, err |-> ioEOF]
    [] body.kind = "malformed" -> [results |-> NilSlice, err |-> jsonSyntaxError]
    [] body.kind = "null" -> [results |-> NilSlice, err |-> NilError]
    [] body.kind = "array" ->
         [results |-> Slice([i \in 1..Len(body.elems) |->
                               ecosystemsPackagesLookupResponse(body.elems[i])]),
          err |-> IF \E i \in 1..Len(body.elems) : elementTypeError(body.elems[i])
                  THEN jsonUnmarshalTypeError ELSE NilError]
    [] OTHER -> [results |-> NilSlice, err |-> jsonUnmarshalTypeError]

(***************************************************************************)
(* PackageInfo and purls.                                                  *)
(***************************************************************************)
PackageInfo(n, v, l, h, r, d, e, u) ==
  [Name |-> n, Version |-> v, Licenses |-> l, Homepage |-> h, RepositoryURL |-> r,
   Description |-> d, Ecosystem |-> e, DocumentationURL |-> u]
\* PackageInfo{}
ZeroPackageInfo == PackageInfo("", "", NilSlice, NilPtr, NilPtr, NilPtr, "", NilPtr)

\* A purl: type, name, version and the qualifiers (tokens k = v & k = v).
PackageURL(t, n, v) == [Type |-> t, Name |-> n, Version |-> v, Qualifiers |-> <<>>]
WithQualifiers(purl, q) == [purl EXCEPT !.Qualifiers = q]
\* purl.String(): the canonical form.
PurlString(purl) ==
  <<"pkg:", purl.Type, "/", purl.Name, "@", purl.Version>>
  \o (IF Len(purl.Qualifiers) > 0 THEN <<"?">> \o purl.Qualifiers ELSE <<>>)

(***************************************************************************)
(* net/url: escaping and parsing of the query.                             *)
(***************************************************************************)
\* url.QueryEscape on one token: everything but letters, digits and - _ . ~
\* is percent-encoded, the percent sign of an already encoded name included.
queryEscapeToken(t) ==
  CASE t = "pkg:" -> "pkg%3A"
    [] t = "/" -> "%2F"
    [] t = "@" -> "%40"
    [] t = "?" -> "%3F"
    [] t = "=" -> "%3D"
    [] t = "&" -> "%26"
    [] t = "%40types/node" -> "%2540types%2Fnode"
    [] OTHER -> t

\* The purl put into the URL as it is.
QueryEscapeNone(str) == str

QueryEscape(str) == [i \in 1..Len(str) |-> queryEscapeToken(str[i])]

\* url.QueryUnescape, as the receiving server applies it to a value.
queryUnescapeToken(t) ==
  CASE t = "pkg%3A" -> "pkg:"
    [] t = "%2F" -> "/"
    [] t = "%40" -> "@"
    [] t = "%3F" -> "?"
    [] t = "%3D" -> "="
    [] t = "%26" -> "&"
    [] t = "%2540types%2Fnode" -> "%40types/node"
    [] t = "%40types/node" -> "@types/node"
    [] OTHER -> t
QueryUnescape(str) == [i \in 1..Len(str) |-> queryUnescapeToken(str[i])]

\* The index of the first token c in str at or after i, Len(str) + 1 if none.
RECURSIVE indexOf(_, _, _)
indexOf(str, c, i) ==
  IF i > Len(str) THEN Len(str) + 1
  ELSE IF str[i] = c THEN i
  ELSE indexOf(str, c, i + 1)

\* url.ParseQuery: the raw query is cut at every "&", each piece at its
\* first "=", and the value is unescaped.
RECURSIVE ParseQuery(_)
ParseQuery(raw) ==
  IF Len(raw) = 0 THEN <<>>
  ELSE LET amp == indexOf(raw, "&", 1)
           piece == SubSeq(raw, 1, amp - 1)
           eq == indexOf(piece, "=", 1)
           rest == SubSeq(raw, amp + 1, Len(raw))
       IN  (IF Len(piece) = 0 THEN <<>>
            ELSE << <<SubSeq(piece, 1, eq - 1),
                      QueryUnescape(SubSeq(piece, eq + 1, Len(piece)))>> >>)
           \o ParseQuery(rest)

(***************************************************************************)
(* EcosystemsService.                                                      *)
(***************************************************************************)
\* NewEcosystemsService(opts): an empty BaseURL selects the public API.
NewEcosystemsService(BaseURL) ==
  [kind |-> "EcosystemsService",
   baseURL |-> IF BaseURL # "" THEN BaseURL ELSE ecosystemsBaseURL,
   info |-> ZeroPackageInfo, err |-> NilError]

\* The test double of main_test.go: returns its fields, whatever they are.
mockService(info, err) ==
  [kind |-> "mockService", baseURL |-> "", info |-> info, err |-> err]

\* url.Parse as http.NewRequestWithContext applies it to apiURL: a base
\* address with a space in its host does not parse.
urlParseError == ErrorsNew("parse: invalid character \" \" in host name")
urlParse(base) == IF base = "http://bad host" THEN urlParseError ELSE NilError

\* fmt.Sprintf("%s%s?purl=%s", s.baseURL, ecosystemsAPIPath,
\*             url.QueryEscape(purl.String()))
apiURL(s, purl) ==
  <<s.baseURL, ecosystemsAPIPath, "?", "purl", "=">> \o QueryEscape(PurlString(purl))

\* http.NewRequestWithContext(ctx, http.MethodGet, apiURL, nil): the URL is
\* cut at its first "?", the request is bound to ctx and carries no header
\* of its own.
NoRequest ==
  [Method |-> "", base |-> "", path |-> "", RawQuery |-> <<>>, Header |-> <<>>,
   withContext |-> FALSE]
\* The request built without the context (http.NewRequest).
NewRequestNoContext(method, url) ==
  [Method |-> method, base |-> url[1], path |-> url[2],
   RawQuery |-> SubSeq(url, indexOf(url, "?", 1) + 1, Len(url)), Header |-> <<>>,
   withContext |-> FALSE]

NewRequestWithContext(method, url) ==
  [Method |-> method, base |-> url[1], path |-> url[2],
   RawQuery |-> SubSeq(url, indexOf(url, "?", 1) + 1, Len(url)), Header |-> <<>>,
   withContext |-> TRUE]
NewRequest(s, purl) == NewRequestWithContext("GET", apiURL(s, purl))

\* What client.Do hands back: an error, or a response with status and body.
NoResponse == [err |-> NilError, StatusCode |-> 0, Body |-> Body("empty", <<>>)]
Response(status, body) == [err |-> NilError, StatusCode |-> status, Body |-> body]
DoError(e) == [err |-> e, StatusCode |-> 0, Body |-> Body("empty", <<>>)]

\* A result of GetPackageInfo: the pair (PackageInfo, error).
Result(info, err) == [info |-> info, err |-> err]
NoResult == Result(ZeroPackageInfo, NilError)

\* statusError with the 504 case lost: a gateway timeout falls to the default.
statusErrorNoGatewayTimeout(StatusCode) ==
  CASE StatusCode = StatusNotFound -> ErrorfWrapSuffix(ErrPackageNotFound, ": HTTP 404")
    [] StatusCode = StatusTooManyRequests -> ErrorsNew("rate limited by API: HTTP 429")
    [] StatusCode \in {StatusBadGateway, StatusServiceUnavailable} ->
         ErrorfStatus("API service unavailable: HTTP ", StatusCode)
    [] OTHER -> ErrorfStatus("API error: HTTP ", StatusCode)

\* The switch over a non-200 status.
statusError(StatusCode) ==
  CASE StatusCode = StatusNotFound -> ErrorfWrapSuffix(ErrPackageNotFound, ": HTTP 404")
    [] StatusCode = StatusTooManyRequests -> ErrorsNew("rate limited by API: HTTP 429")
    [] StatusCode \in {StatusBadGateway, StatusServiceUnavailable, StatusGatewayTimeout} ->
         ErrorfStatus("API service unavailable: HTTP ", StatusCode)
    [] OTHER -> ErrorfStatus("API error: HTTP ", StatusCode)

\* notFoundError wrapping the wrong sentinel.
notFoundErrorAsInvalid(purl) ==
  [isNil |-> FALSE, text |-> ErrInvalidResponse.text \o <<": ">> \o PurlString(purl),
   is |-> ErrInvalidResponse.is]

\* fmt.Errorf("%w: %s", ErrPackageNotFound, purl.String())
notFoundError(purl) ==
  [isNil |-> FALSE, text |-> ErrPackageNotFound.text \o <<": ">> \o PurlString(purl),
   is |-> ErrPackageNotFound.is]

\* The composite literal PackageInfo{Name, Version, Licenses}: every field
\* it does not name keeps its zero value.
convertResult(result, purl) ==
  PackageInfo(result.Name, result.LatestReleaseNumber, result.NormalizedLicenses,
              NilPtr, NilPtr, NilPtr, "", NilPtr)

\* firstResult taking the last element instead of the first.
lastResult(results) == results.elems[Len(results.elems)]

\* result := results[0]
firstResult(results) == results.elems[1]

\* invalidResponse handing out what was decoded before the error.
invalidResponsePartial(decoded, purl) ==
  Result(IF Len(decoded.results.elems) > 0
         THEN PackageInfo(decoded.results.elems[1].Name,
                          decoded.results.elems[1].LatestReleaseNumber,
                          decoded.results.elems[1].NormalizedLicenses,
                          NilPtr, NilPtr, NilPtr, "", NilPtr)
         ELSE ZeroPackageInfo,
         ErrorfWrap2(ErrInvalidResponse, decoded.err))

\* The return taken when Decode reports an error; decoded is what Decode
\* left behind (results, possibly partly filled, and the error).
invalidResponse(decoded, purl) ==
  Result(ZeroPackageInfo, ErrorfWrap2(ErrInvalidResponse, decoded.err))

\* handleResponse putting only the text of the transport's error into its
\* own (%v in place of %w).
handleResponseNoWrap(purl, response) ==
  IF ~response.err.isNil
  THEN Result(ZeroPackageInfo,
              [isNil |-> FALSE, text |-> <<"failed to make HTTP request: ">> \o response.err.text,
               is |-> {}])
  ELSE IF response.StatusCode # StatusOK
  THEN Result(ZeroPackageInfo, statusError(response.StatusCode))
  ELSE LET decoded == jsonDecode(response.Body) IN
       IF ~decoded.err.isNil
       THEN invalidResponse(decoded, purl)
       ELSE IF Len(decoded.results.elems) = 0
       THEN Result(ZeroPackageInfo, notFoundError(purl))
       ELSE Result(convertResult(firstResult(decoded.results), purl), NilError)

\* The body of GetPackageInfo after client.Do has returned.
handleResponse(purl, response) ==
  IF ~response.err.isNil
  THEN Result(ZeroPackageInfo, ErrorfWrap("failed to make HTTP request: ", response.err))
  ELSE IF response.StatusCode # StatusOK
  THEN Result(ZeroPackageInfo, statusError(response.StatusCode))
  ELSE LET decoded == jsonDecode(response.Body) IN
       IF ~decoded.err.isNil
       THEN invalidResponse(decoded, purl)
       ELSE IF Len(decoded.results.elems) = 0
       THEN Result(ZeroPackageInfo, notFoundError(purl))
       ELSE Result(convertResult(firstResult(decoded.results), purl), NilError)

\* GetPackageInfo decoding the body whatever the status.
readsBodyAnyStatus(response) == response.err.isNil

\* GetPackageInfo reaches json.NewDecoder(response.Body).Decode: client.Do
\* returned a response and its status is 200.
readsBody(response) == response.err.isNil /\ response.StatusCode = StatusOK

(***************************************************************************)
(* Rendering (printOutput and its helpers).                                *)
(***************************************************************************)
RECURSIVE stringsJoin(_, _)
\* strings.Join(elems, sep), as tokens.
stringsJoin(elems, sep) ==
  IF Len(elems) = 0 THEN <<>>
  ELSE IF Len(elems) = 1 THEN <<elems[1]>>
  ELSE <<elems[1], sep>> \o stringsJoin(Tail(elems), sep)

\* printLicenses printing the first license only.
printLicensesFirst(licenses) ==
  IF Len(licenses.elems) > 0
  THEN <<"Licenses:        ", licenses.elems[1], "\n">>
  ELSE <<"Licenses:        (none)\n">>

printLicenses(licenses) ==
  IF Len(licenses.elems) > 0
  THEN <<"Licenses:        ">> \o stringsJoin(licenses.elems, ", ") \o <<"\n">>
  ELSE <<"Licenses:        (none)\n">>

\* The label is padded to labelColumnWidth (17) columns.
labelColumnWidth == 17
labelLen(label) ==
  CASE label = "Description:" -> 12
    [] label = "Homepage:" -> 9
    [] label = "RepositoryURL:" -> 14
    [] label = "DocumentationURL:" -> 17
padding(n) == [i \in 1..n |-> " "]

\* printOptionalField printing whatever a non-nil pointer points to.
printOptionalFieldNonNil(label, value) ==
  IF ~value.isNil
  THEN <<label>> \o padding(labelColumnWidth - labelLen(label)) \o <<value.val, "\n">>
  ELSE <<label>> \o padding(labelColumnWidth - labelLen(label)) \o <<"(none)\n">>

printOptionalField(label, value) ==
  IF ~value.isNil /\ value.val # ""
  THEN <<label>> \o padding(labelColumnWidth - labelLen(label)) \o <<value.val, "\n">>
  ELSE <<label>> \o padding(labelColumnWidth - labelLen(label)) \o <<"(none)\n">>

printHumanReadableOutput(info) ==
  <<"Name:            ", info.Name, "\n">>
  \o <<"Version:         ", info.Version, "\n">>
  \o <<"Ecosystem:       ", info.Ecosystem, "\n">>
  \o printLicenses(info.Licenses)
  \o printOptionalField("Description:", info.Description)
  \o printOptionalField("Homepage:", info.Homepage)
  \o printOptionalField("RepositoryURL:", info.RepositoryURL)
  \o printOptionalField("DocumentationURL:", info.DocumentationURL)

\* encoding/json on PackageInfo: the members in field order; a nil slice and
\* a nil pointer are written as null (no field carries omitempty).
marshalSlice(l) == IF l.isNil THEN JNull ELSE JArr(l.elems)

\* marshalPtr writing the empty string for a nil pointer.
marshalPtrEmpty(p) == IF p.isNil THEN JStr("") ELSE JStr(p.val)

marshalPtr(p) == IF p.isNil THEN JNull ELSE JStr(p.val)
jsonMarshal(info) ==
  << <<"name", JStr(info.Name)>>,
     <<"version", JStr(info.Version)>>,
     <<"licenses", marshalSlice(info.Licenses)>>,
     <<"homepage", marshalPtr(info.Homepage)>>,
     <<"repository_url", marshalPtr(info.RepositoryURL)>>,
     <<"description", marshalPtr(info.Description)>>,
     <<"ecosystem", JStr(info.Ecosystem)>>,
     <<"documentation_url", marshalPtr(info.DocumentationURL)>> >>

\* The encoder's string escaping (HTML-safe by default): the quote and the
\* backslash get a backslash, the ampersand and the angle brackets become
\* their six-character unicode escapes, and a byte that is no valid UTF-8
\* becomes the escape of the replacement character.  Every other string
\* is written as it is.
jsonEscape(str) ==
  CASE str = "R&D" -> "R\\u0026D"
    [] str = "1.0<2" -> "1.0\\u003c2"
    [] str = "MIT&BSD" -> "MIT\\u0026BSD"
    [] str = "say \"hi\"" -> "say \\\"hi\\\""
    [] str = "caf\\xE9" -> "caf\\ufffd"
    [] OTHER -> str

\* The text of a JSON string.
jsonStringText(str) == <<"\"", jsonEscape(str), "\"">>

\* The elements of an indented array, one per line.
RECURSIVE jsonElemsText(_)
jsonElemsText(a) ==
  IF Len(a) = 0 THEN <<>>
  ELSE <<"    ">> \o jsonStringText(a[1])
       \o (IF Len(a) > 1 THEN <<",\n">> ELSE <<"\n">>)
       \o jsonElemsText(Tail(a))

\* The text of one JSON value, at the indent of a member of the document.
jsonValueText(j) ==
  CASE j.t = "null" -> <<"null">>
    [] j.t = "string" -> jsonStringText(j.s)
    [] j.t = "array" ->
         IF Len(j.a) = 0 THEN <<"[]">>
         ELSE <<"[\n">> \o jsonElemsText(j.a) \o <<"  ]">>

RECURSIVE jsonMembersText(_)
jsonMembersText(doc) ==
  IF Len(doc) = 0 THEN <<>>
  ELSE <<"  \"", doc[1][1], "\": ">> \o jsonValueText(doc[1][2])
       \o (IF Len(doc) > 1 THEN <<",\n">> ELSE <<"\n">>)
       \o jsonMembersText(Tail(doc))

\* encoder.SetIndent("", "  "); encoder.Encode(info)
printJSONOutput(info) == <<"{\n">> \o jsonMembersText(jsonMarshal(info)) \o <<"}\n">>

(***************************************************************************)
(* encoding/json reading a document back into a PackageInfo.               *)
(***************************************************************************)
\* The decoder's reading of a string: the escapes are undone; the escape of
\* the replacement character gives that character, not the byte it stood
\* for.
jsonUnescape(str) ==
  CASE str = "R\\u0026D" -> "R&D"
    [] str = "1.0\\u003c2" -> "1.0<2"
    [] str = "MIT\\u0026BSD" -> "MIT&BSD"
    [] str = "say \\\"hi\\\"" -> "say \"hi\""
    [] str = "caf\\ufffd" -> "caf(U+FFFD)"
    [] OTHER -> str

\* utf8.ValidString
utf8ValidString(str) == str # "caf\\xE9"

\* The elements of an array from position i on, and the position after it.
RECURSIVE parseElems(_, _)
parseElems(text, i) ==
  IF text[i] = "  ]" THEN [a |-> <<>>, next |-> i + 1]
  ELSE LET rest == parseElems(text, i + 5) IN
       [a |-> <<jsonUnescape(text[i + 2])>> \o rest.a, next |-> rest.next]

\* The JSON value at position i, and the position after it.
parseValue(text, i) ==
  CASE text[i] = "null" -> [v |-> JNull, next |-> i + 1]
    [] text[i] = "[]" -> [v |-> JArr(<<>>), next |-> i + 1]
    [] text[i] = "\"" -> [v |-> JStr(jsonUnescape(text[i + 1])), next |-> i + 3]
    [] text[i] = "[\n" ->
         LET elems == parseElems(text, i + 1) IN [v |-> JArr(elems.a), next |-> elems.next]

\* The members of the object from position i on, as pairs of key and value.
RECURSIVE parseMembers(_, _)
parseMembers(text, i) ==
  IF text[i] = "}\n" THEN <<>>
  ELSE LET val == parseValue(text, i + 3) IN
       << <<text[i + 1], val.v>> >> \o parseMembers(text, val.next + 1)

\* The document a text holds.
jsonParse(text) == parseMembers(text, 2)

\* The member of a document with the given key, absent if there is none.
memberOf(doc, key) ==
  IF \E i \in 1..Len(doc) : doc[i][1] = key
  THEN doc[CHOOSE i \in 1..Len(doc) : doc[i][1] = key][2]
  ELSE JAbsent

\* A *string field: a JSON string gives a pointer to it, null and absent
\* leave nil.
decodePtr(j) == IF j.t = "string" THEN stringPtr(j.s) ELSE NilPtr

\* json.Unmarshal(text, &info) on a zero PackageInfo.
jsonUnmarshal(text) ==
  LET doc == jsonParse(text) IN
  PackageInfo(decodeString(memberOf(doc, "name")),
              decodeString(memberOf(doc, "version")),
              decodeStringSlice(memberOf(doc, "licenses")),
              decodePtr(memberOf(doc, "homepage")),
              decodePtr(memberOf(doc, "repository_url")),
              decodePtr(memberOf(doc, "description")),
              decodeString(memberOf(doc, "ecosystem")),
              decodePtr(memberOf(doc, "documentation_url")))

writeError == ErrorsNew("write /dev/stdout: broken pipe")

\* A Write that starts a failed write over, once.
WriteAgain(text, accepts) ==
  [out |-> IF accepts < Len(text)
           THEN SubSeq(text, 1, accepts) \o SubSeq(text, 1, accepts)
           ELSE text,
   err |-> IF accepts < Len(text) THEN writeError ELSE NilError]

\* os.Stdout.Write on a standard output that takes `accepts` more tokens and
\* fails from then on: what arrives, and the error of the write.
Write(text, accepts) ==
  [out |-> SubSeq(text, 1, IF accepts < Len(text) THEN accepts ELSE Len(text)),
   err |-> IF accepts < Len(text) THEN writeError ELSE NilError]

\* printJSONOutput on such a standard output: the encoder hands the whole
\* document to one Write and its error is wrapped.
printJSONOutputTo(info, accepts) ==
  LET w == Write(printJSONOutput(info), accepts) IN
  [out |-> w.out,
   err |-> IF w.err.isNil THEN NilError ELSE ErrorfWrap("failed to encode JSON: ", w.err)]

\* printHumanReadableOutput on such a standard output: the result of every
\* Fprintf is dropped and nil is returned.
printHumanReadableOutputTo(info, accepts) ==
  [out |-> Write(printHumanReadableOutput(info), accepts).out, err |-> NilError]

\* printOutput(info, outputJSON): the text that arrives and the error
\* returned.
printOutput(info, outputJSON, accepts) ==
  IF outputJSON THEN printJSONOutputTo(info, accepts)
  ELSE printHumanReadableOutputTo(info, accepts)

(***************************************************************************)
(* Inputs.                                                                 *)
(***************************************************************************)
\* Command-line arguments, as tokens; one of them is no purl.
lodashArg == <<"pkg:", "npm", "/", "lodash", "@", "4.17.21">>
requestsArg == <<"pkg:", "pypi", "/", "requests", "@", "2.28.0">>
typesNodeArg ==
  <<"pkg:", "npm", "/", "%40types/node", "@", "18.0.0", "?", "arch", "=", "x64", "&", "os",
    "=", "linux">>
invalidArg == <<"invalid-purl">>
ArgLists ==
  {<<>>, <<lodashArg>>, <<requestsArg>>, <<typesNodeArg>>, <<invalidArg>>,
   <<lodashArg, requestsArg>>}

\* The parse with its error dropped.
FromStringUnchecked(str) ==
  IF Len(str) >= 6 /\ str[1] = "pkg:" /\ str[3] = "/" /\ str[5] = "@"
  THEN [purl |-> WithQualifiers(PackageURL(str[2], str[4], str[6]),
                                SubSeq(str, 8, Len(str))),
        err |-> NilError]
  ELSE [purl |-> PackageURL("", "", ""), err |-> NilError]

\* packageurl.FromString: the external parser, on the argument shapes above.
FromString(str) ==
  IF Len(str) >= 6 /\ str[1] = "pkg:" /\ str[3] = "/" /\ str[5] = "@"
     /\ (Len(str) > 6 => Len(str) > 7 /\ str[7] = "?")
  THEN [purl |-> WithQualifiers(PackageURL(str[2], str[4], str[6]),
                                SubSeq(str, 8, Len(str))),
        err |-> NilError]
  ELSE [purl |-> PackageURL("", "", ""), err |-> ErrorsNew("purl scheme is not \"pkg\"")]

\* Base addresses given to NewEcosystemsService by the tests.
BaseURLs == {"", "http://127.0.0.1:8080", "http://bad host"}

\* Statuses the upstream may answer with.
Statuses == {200, 201, 204, 404, 429, 500, 502, 503, 504}

\* Values of an optional member, and of normalized_licenses.
OptVals == {JAbsent, JNull, JStr(""), JStr("https://lodash.com/")}
LicenseVals ==
  {JAbsent, JNull, JArr(<<>>), JArr(<<"MIT">>), JArr(<<"Apache-2.0", "MIT">>),
   JArr(<<"MIT", "Apache-2.0">>), JStr("MIT")}

\* First elements of the upstream array.
FirstEntries ==
  {JObject(JStr("lodash"), JStr("4.17.21"), JArr(<<"MIT">>), h, r, d, u) :
     h \in OptVals, r \in OptVals, d \in OptVals, u \in OptVals}
  \cup {JObject(n, v, l, JAbsent, JAbsent, JAbsent, JAbsent) :
          n \in {JStr("lodash"), JAbsent, JNum}, v \in {JStr("4.17.21"), JNull},
          l \in LicenseVals}
  \cup {JNonObject("null"), JNonObject("number")}

\* Elements after the first.
TailEntries ==
  {JObject(JStr("other"), JStr("9.9.9"), JArr(<<"GPL-3.0">>),
           JStr("https://other.example/"), JAbsent, JAbsent, JAbsent),
   JObject(JNum, JStr("9.9.9"), JAbsent, JAbsent, JAbsent, JAbsent, JAbsent),
   JNonObject("number")}

RECURSIVE SeqsUpTo(_, _)
\* The sequences over S of length at most n.
SeqsUpTo(S, n) ==
  IF n <= 0 THEN {<<>>}
  ELSE LET shorter == SeqsUpTo(S, n - 1) IN
       shorter \cup {<<x>> \o t : x \in S, t \in shorter}

Bodies ==
  {Body("empty", <<>>), Body("malformed", <<>>), Body("object", <<>>), Body("null", <<>>),
   Body("array", <<>>)}
  \cup {Body("array", <<f>> \o t) : f \in FirstEntries, t \in SeqsUpTo(TailEntries, MaxEntries - 1)}

\* What is printed depends on the result alone, so a lookup started by
\* run() or runWithService meets the bodies with at most one entry and no
\* optional member; a caller of GetPackageInfo itself meets them all.
PlainBodies ==
  {b \in Bodies :
     /\ Len(b.elems) <= 1
     /\ \A i \in 1..Len(b.elems) :
          /\ b.elems[i].homepage = JAbsent
          /\ b.elems[i].repository_url = JAbsent
          /\ b.elems[i].description = JAbsent
          /\ b.elems[i].documentation_url = JAbsent}
BodiesFor(who) == IF who = "GetPackageInfo" THEN Bodies ELSE PlainBodies

\* Errors of the transport (client.Do).
TransportErrors ==
  {ErrorsNew("dial tcp: connection refused"), contextDeadlineExceeded, contextCanceled}

\* What cuts the reading of a response body short.
BodyReadErrors == {contextDeadlineExceeded, contextCanceled, connectionReset}

\* The -email flag.
Emails == {"", "dev@example.com"}

\* What the test double is loaded with.
MockInfos ==
  {ZeroPackageInfo,
   PackageInfo("lodash", "4.17.21", Slice(<<"MIT">>), stringPtr("https://lodash.com/"),
               stringPtr("https://github.com/lodash/lodash"),
               stringPtr("Lodash modular utilities."), "npm", stringPtr("https://lodash.com/docs")),
   PackageInfo("requests", "2.32.5", Slice(<<"Apache-2.0", "MIT">>), NilPtr, stringPtr(""),
               NilPtr, "pypi", NilPtr),
   PackageInfo("test-package", "1.0.0", Slice(<<>>), NilPtr, NilPtr, NilPtr, "npm", NilPtr),
   PackageInfo("R&D", "1.0<2", Slice(<<"MIT&BSD", "">>), NilPtr, NilPtr,
               stringPtr("say \"hi\""), "npm", NilPtr),
   PackageInfo("caf\\xE9", "0.0.1", NilSlice, NilPtr, NilPtr, NilPtr, "", NilPtr)}
MockErrors ==
  {NilError,
   ErrorsNew("service error: package not found"),
   ErrorsNew("specific error message"),
   ErrorfWrapSuffix(ErrPackageNotFound, ": HTTP 404"),
   ErrorsNew("rate limited by API: HTTP 429"),
   ErrorfWrap("failed to make HTTP request: ", contextDeadlineExceeded),
   ErrorfWrap("failed to make HTTP request: ", contextCanceled)}

\* Services handed to runWithService by a caller other than run().
TestServices ==
  {NewEcosystemsService(b) : b \in BaseURLs \ {""}}
  \cup {mockService(i, e) : i \in MockInfos, e \in MockErrors}

\* How many tokens standard output takes before its writes fail: none, a
\* few (a short write), or the whole text.
outputText(info, isJSON) ==
  IF isJSON THEN printJSONOutput(info) ELSE printHumanReadableOutput(info)
WriteBudgets(info, isJSON) == (0..MaxShortWrite) \cup {Len(outputText(info, isJSON))}

(***************************************************************************)
(* State.                                                                  *)
(***************************************************************************)
VARIABLES
  pc,          \* where the invocation stands
  verbose,     \* the -v flag
  outputJSON,  \* the -json flag
  service,     \* the Service runWithService was given
  purl,        \* the parsed purl
  purlString,  \* its original string form
  ctx,         \* the timeout-bounded context of runWithService
  request,     \* the request GetPackageInfo built
  response,    \* what client.Do returned
  result,      \* what GetPackageInfo returned
  stdout,      \* text written to standard output
  stderr,      \* text written to standard error
  exitCode,    \* the exit status, -1 while running
  email,       \* the -email flag
  caller,      \* who called: run, a caller of runWithService, of GetPackageInfo
  ctxAtCall,   \* the state of the context when GetPackageInfo was called
  calls,       \* calls of GetPackageInfo so far
  sent,        \* requests handed to client.Do so far
  stdoutFailed, \* whether a write to standard output has failed
  args,        \* the positional arguments run() was started with
  showVersion, \* the -version flag
  exchanges,   \* HTTP exchanges the client has made with the upstream
  printErr,    \* what printOutput returned to runWithService
  bodyRead     \* GetPackageInfo has read the body of the response

vars ==
  <<pc, verbose, outputJSON, service, purl, purlString, ctx, request, response, result,
    stdout, stderr, exitCode, email, caller, ctxAtCall, calls, sent, stdoutFailed, args,
    showVersion, exchanges, printErr, bodyRead>>

\* No Service constructed yet.
NoService == [kind |-> "none", baseURL |-> "", info |-> ZeroPackageInfo, err |-> NilError]
NoPurl == PackageURL("", "", "")

Init ==
  /\ pc = "main"
  /\ verbose = FALSE
  /\ outputJSON = FALSE
  /\ service = NoService
  /\ purl = NoPurl
  /\ purlString = <<>>
  /\ ctx = "none"
  /\ request = NoRequest
  /\ response = NoResponse
  /\ result = NoResult
  /\ stdout = <<>>
  /\ stderr = <<>>
  /\ exitCode = -1
  /\ email = ""
  /\ caller = "none"
  /\ ctxAtCall = "none"
  /\ calls = 0
  /\ sent = 0
  /\ stdoutFailed = FALSE
  /\ args = <<>>
  /\ showVersion = FALSE
  /\ exchanges = 0
  /\ printErr = NilError
  /\ bodyRead = FALSE

(***************************************************************************)
(* run() and its helpers.                                                  *)
(***************************************************************************)
version == "0.1.0-dev"

printUsage ==
  <<"Usage: ", "purlinfo", " [OPTIONS] purl\n\n",
    "Get package information from a package URL (purl).\n\n",
    "Arguments:\n",
    "  purl    Package URL (e.g., pkg:npm/lodash@4.17.21)\n\n",
    "Options:\n">>

\* logger.Debug(msg, "purl", str): setupLogger lets debug records through to
\* standard error only when verbose.
loggerDebug(isVerbose, msg, str) ==
  IF isVerbose THEN <<"level=DEBUG msg=\"", msg, "\" purl=">> \o str \o <<"\n">> ELSE <<>>

\* createService(httpClient, email): EcosystemsServiceOptions has the fields
\* BaseURL and Client only, so nothing of the email reaches the service.
createService(emailFlag) == NewEcosystemsService("")

\* run(): flags and arguments are checked, the purl is parsed, the service is
\* created and runWithService is called.
run ==
  /\ pc = "main"
  /\ \E argv \in ArgLists, v \in BOOLEAN, j \in BOOLEAN, sv \in BOOLEAN, e \in Emails :
       /\ args' = argv
       /\ showVersion' = sv
       /\ verbose' = v
       /\ outputJSON' = j
       /\ email' = e
       /\ IF sv
          THEN /\ stdout' = <<"purlinfo version ", version, "\n">>
               /\ exitCode' = exitSuccess
               /\ pc' = "exit"
               /\ UNCHANGED <<stderr, purl, purlString, service>>
          ELSE IF Len(argv) = 0
          THEN /\ stderr' = <<"Error: purl argument is required\n\n">> \o printUsage
               /\ exitCode' = exitInvalidArgs
               /\ pc' = "exit"
               /\ UNCHANGED <<stdout, purl, purlString, service>>
          ELSE IF Len(argv) > 1
          THEN /\ stderr' = <<"Error: Too many arguments. Expected 1 purl, got ",
                              ToString(Len(argv)), "\n\n">> \o printUsage
               /\ exitCode' = exitInvalidArgs
               /\ pc' = "exit"
               /\ UNCHANGED <<stdout, purl, purlString, service>>
          ELSE LET parsed == FromString(argv[1]) IN
               IF ~parsed.err.isNil
               THEN /\ stderr' = loggerDebug(v, "parsing purl", argv[1])
                                 \o <<"Error: Invalid purl format: ">> \o parsed.err.text
                                 \o <<"\n">>
                    /\ exitCode' = exitInvalidPurl
                    /\ pc' = "exit"
                    /\ UNCHANGED <<stdout, purl, purlString, service>>
               ELSE /\ stderr' = loggerDebug(v, "parsing purl", argv[1])
                    /\ purl' = parsed.purl
                    /\ purlString' = argv[1]
                    /\ service' = createService(e)
                    /\ pc' = "runWithService"
                    /\ UNCHANGED <<stdout, exitCode>>
  /\ caller' = "run"
  /\ UNCHANGED <<ctx, request, response, result, ctxAtCall, calls, sent, stdoutFailed,
                 exchanges, printErr, bodyRead>>

\* A caller other than run() (the tests) hands runWithService a service of
\* its own choosing.
callRunWithService ==
  /\ pc = "main"
  /\ \E svc \in TestServices, arg \in {lodashArg, requestsArg}, v \in BOOLEAN, j \in BOOLEAN :
       /\ service' = svc
       /\ purl' = FromString(arg).purl
       /\ purlString' = arg
       /\ verbose' = v
       /\ outputJSON' = j
  /\ pc' = "runWithService"
  /\ caller' = "runWithService"
  /\ UNCHANGED <<ctx, request, response, result, stdout, stderr, exitCode, email,
                 ctxAtCall, calls, sent, stdoutFailed, args, showVersion, exchanges, printErr,
                 bodyRead>>

\* A caller of EcosystemsService.GetPackageInfo itself (the tests of
\* ecosystems_test.go): the context it passes is live, or already cancelled.
callGetPackageInfo ==
  /\ pc = "main"
  /\ \E b \in BaseURLs, arg \in {lodashArg, typesNodeArg}, c \in {"active", "canceled"} :
       /\ service' = NewEcosystemsService(b)
       /\ purl' = FromString(arg).purl
       /\ purlString' = arg
       /\ ctx' = c
  /\ pc' = "GetPackageInfo"
  /\ caller' = "GetPackageInfo"
  /\ UNCHANGED <<verbose, outputJSON, request, response, result, stdout, stderr,
                 exitCode, email, ctxAtCall, calls, sent, stdoutFailed, args,
                 showVersion, exchanges, printErr, bodyRead>>

(***************************************************************************)
(* runWithService and GetPackageInfo.                                      *)
(***************************************************************************)
\* runWithService up to the call of service.GetPackageInfo: the context is
\* derived and the debug record is logged.
runWithServiceBegin ==
  /\ pc = "runWithService"
  /\ ctx' = "active"
  /\ stderr' = stderr \o loggerDebug(verbose, "fetching package info", purlString)
  /\ pc' = "GetPackageInfo"
  /\ UNCHANGED <<verbose, outputJSON, service, purl, purlString, request, response,
                 result, stdout, exitCode, email, caller, ctxAtCall, calls, sent,
                 stdoutFailed, args, showVersion, exchanges, printErr, bodyRead>>

\* mockService.GetPackageInfo
mockGetPackageInfo ==
  /\ pc = "GetPackageInfo"
  /\ service.kind = "mockService"
  /\ result' = Result(service.info, service.err)
  /\ ctxAtCall' = ctx
  /\ calls' = calls + 1
  /\ pc' = "returned"
  /\ UNCHANGED <<verbose, outputJSON, service, purl, purlString, ctx, request, response,
                 stdout, stderr, exitCode, email, caller, sent, stdoutFailed, args,
                 showVersion, exchanges, printErr, bodyRead>>

\* EcosystemsService.GetPackageInfo up to client.Do: the request is built, or
\* the call returns the construction error.
GetPackageInfoRequest ==
  /\ pc = "GetPackageInfo"
  /\ service.kind = "EcosystemsService"
  /\ IF ~urlParse(service.baseURL).isNil
     THEN /\ result' = Result(ZeroPackageInfo,
                              ErrorfWrap("failed to create HTTP request: ",
                                         urlParse(service.baseURL)))
          /\ pc' = "returned"
          /\ UNCHANGED request
     ELSE /\ request' = NewRequest(service, purl)
          /\ pc' = "Do"
          /\ UNCHANGED result
  /\ ctxAtCall' = ctx
  /\ calls' = calls + 1
  /\ UNCHANGED <<verbose, outputJSON, service, purl, purlString, ctx, response, stdout,
                 stderr, exitCode, email, caller, sent, stdoutFailed, args, showVersion,
                 exchanges, printErr, bodyRead>>

\* The context is done: its deadline has passed or it was cancelled.
ctxDone(c) == c \in {"deadline", "canceled"}
ctxErr(c) == IF c = "deadline" THEN contextDeadlineExceeded ELSE contextCanceled

\* The state of the context after the error e has come out of it.
ctxAfter(c, e) ==
  IF e = contextDeadlineExceeded THEN "deadline"
  ELSE IF e = contextCanceled THEN "canceled"
  ELSE c

\* Only a caller of GetPackageInfo itself cancels while the call runs:
\* runWithService cancels when it returns.
mayFail(who, e) == e = contextCanceled => who = "GetPackageInfo"

\* While the call is under way (the request in flight, or the response in
\* and its body not yet decoded) the deadline of the context passes, or
\* the caller cancels it.
ctxExpire ==
  /\ pc \in {"Do", "Done"}
  /\ ctx = "active"
  /\ \E e \in {contextDeadlineExceeded, contextCanceled} :
       /\ mayFail(caller, e)
       /\ ctx' = ctxAfter(ctx, e)
  /\ UNCHANGED <<pc, verbose, outputJSON, service, purl, purlString, request, response,
                 result, stdout, stderr, exitCode, email, caller, ctxAtCall, calls, sent,
                 stdoutFailed, args, showVersion, exchanges, printErr, bodyRead>>

\* client.Do(req): the upstream answers with some status and body.  The
\* transport answers no request whose context is done.
clientDoResponse ==
  /\ pc = "Do"
  /\ ~(request.withContext /\ ctxDone(ctx))
  /\ \E status \in Statuses, body \in BodiesFor(caller) :
       response' = Response(status, body)
  /\ sent' = sent + 1
  /\ \E redirects \in 0..MaxRedirects : exchanges' = exchanges + redirects + 1
  /\ pc' = "Done"
  /\ UNCHANGED <<verbose, outputJSON, service, purl, purlString, ctx, request, result,
                 stdout, stderr, exitCode, email, caller, ctxAtCall, calls, stdoutFailed,
                 args, showVersion, printErr, bodyRead>>

\* client.Do(req): the upstream answers with a status, and the body breaks
\* off while it is read: the connection is lost, or the context is done by
\* then.
clientDoResponseBroken ==
  /\ pc = "Do"
  /\ ~(request.withContext /\ ctxDone(ctx))
  /\ \E status \in Statuses, e \in BodyReadErrors :
       /\ mayFail(caller, e)
       /\ response' = Response(status, BrokenBody(e))
       /\ ctx' = ctxAfter(ctx, e)
  /\ sent' = sent + 1
  /\ \E redirects \in 0..MaxRedirects : exchanges' = exchanges + redirects + 1
  /\ pc' = "Done"
  /\ UNCHANGED <<verbose, outputJSON, service, purl, purlString, request, result, stdout,
                 stderr, exitCode, email, caller, ctxAtCall, calls, stdoutFailed, args,
                 showVersion, printErr, bodyRead>>

\* client.Do(req): the transport fails; the context of the request being
\* done (before the call or during it) is one such failure, and the only
\* one when it was done before.
clientDoError ==
  /\ pc = "Do"
  /\ \E e \in TransportErrors :
       /\ mayFail(caller, e)
       /\ (request.withContext /\ ctxDone(ctx)) => e = ctxErr(ctx)
       /\ response' = DoError(e)
       /\ ctx' = ctxAfter(ctx, e)
  /\ sent' = sent + 1
  /\ pc' = "Done"
  /\ UNCHANGED <<verbose, outputJSON, service, purl, purlString, request, result, stdout,
                 stderr, exitCode, email, caller, ctxAtCall, calls, stdoutFailed, args,
                 showVersion, exchanges, printErr, bodyRead>>

\* GetPackageInfo sending its request again when the upstream asks for
\* patience (429) or is unavailable (502, 503, 504).
GetPackageInfoResponseRetry ==
  /\ pc = "Done"
  /\ IF response.err.isNil
        /\ response.StatusCode \in {StatusTooManyRequests, StatusBadGateway,
                                    StatusServiceUnavailable, StatusGatewayTimeout}
     THEN pc' = "Do" /\ UNCHANGED <<result, bodyRead>>
     ELSE /\ pc' = "returned"
          /\ result' = handleResponse(purl, response)
          /\ bodyRead' = readsBody(response)
  /\ UNCHANGED <<verbose, outputJSON, service, purl, purlString, ctx, request, response,
                 stdout, stderr, exitCode, email, caller, ctxAtCall, calls, sent,
                 stdoutFailed, args, showVersion, exchanges, printErr>>

\* EcosystemsService.GetPackageInfo after client.Do.
GetPackageInfoResponse ==
  /\ pc = "Done"
  /\ result' = handleResponse(purl, response)
  /\ bodyRead' = readsBody(response)
  /\ pc' = "returned"
  /\ UNCHANGED <<verbose, outputJSON, service, purl, purlString, ctx, request, response,
                 stdout, stderr, exitCode, email, caller, ctxAtCall, calls, sent,
                 stdoutFailed, args, showVersion, exchanges, printErr>>

\* reportError printing the detail whatever the flag.
reportErrorAlwaysDetail(isVerbose, err) ==
  <<"Error: Failed to get package info: ">> \o err.text \o <<"\n">>

\* What runWithService writes to standard error for a failed lookup.
reportError(isVerbose, err) ==
  IF isVerbose
  THEN <<"Error: Failed to get package info: ">> \o err.text \o <<"\n">>
  ELSE <<"Error: Failed to get package info\n", "Use -v flag for more details\n">>

\* errorExit treating a missing package as no failure.
errorExitByKind(isVerbose, isJSON, err) ==
  IF errorsIs(err, ErrPackageNotFound) THEN exitSuccess ELSE exitRuntimeError

\* The exit status runWithService returns for a failed lookup.
errorExit(isVerbose, isJSON, err) == exitRuntimeError

\* runWithService after a failed lookup; the deferred cancel runs, and the
\* locals of GetPackageInfo are gone.
runWithServiceError ==
  /\ pc = "returned"
  /\ caller # "GetPackageInfo"
  /\ ~result.err.isNil
  /\ stderr' = stderr \o reportError(verbose, result.err)
  /\ exitCode' = errorExit(verbose, outputJSON, result.err)
  /\ ctx' = "released"
  /\ request' = NoRequest
  /\ response' = NoResponse
  /\ pc' = "exit"
  /\ UNCHANGED <<verbose, outputJSON, service, purl, purlString, result, stdout, email,
                 caller, ctxAtCall, calls, sent, stdoutFailed, args, showVersion,
                 exchanges, printErr, bodyRead>>

\* runWithService printing whatever the lookup returned, its error unread.
runWithServiceOutputUnchecked ==
  /\ pc = "returned"
  /\ caller # "GetPackageInfo"
  /\ \E accepts \in WriteBudgets(result.info, outputJSON) :
       LET printed == printOutput(result.info, outputJSON, accepts) IN
       /\ stdout' = stdout \o printed.out
       /\ stdoutFailed' = (accepts < Len(outputText(result.info, outputJSON)))
       /\ printErr' = printed.err
  /\ pc' = "printed"
  /\ UNCHANGED <<verbose, outputJSON, service, purl, purlString, ctx, request, response,
                 result, stderr, exitCode, email, caller, ctxAtCall, calls, sent, args,
                 showVersion, exchanges, bodyRead>>

\* runWithService after a successful lookup: printOutput is called; standard
\* output takes the writes or fails them from some point on.
runWithServiceOutput ==
  /\ pc = "returned"
  /\ caller # "GetPackageInfo"
  /\ result.err.isNil
  /\ \E accepts \in WriteBudgets(result.info, outputJSON) :
       LET printed == printOutput(result.info, outputJSON, accepts) IN
       /\ stdout' = stdout \o printed.out
       /\ stdoutFailed' = (accepts < Len(outputText(result.info, outputJSON)))
       /\ printErr' = printed.err
  /\ pc' = "printed"
  /\ UNCHANGED <<verbose, outputJSON, service, purl, purlString, ctx, request, response,
                 result, stderr, exitCode, email, caller, ctxAtCall, calls, sent, args,
                 showVersion, exchanges, bodyRead>>

\* runWithService with cancel called before each return, except the return
\* after a render error.
runWithServiceReturnNoDefer ==
  /\ pc = "printed"
  /\ IF ~printErr.isNil
     THEN /\ stderr' = stderr \o <<"Error: ">> \o printErr.text \o <<"\n">>
          /\ exitCode' = exitRuntimeError
          /\ ctx' = ctx
     ELSE /\ stderr' = stderr
          /\ exitCode' = exitSuccess
          /\ ctx' = "released"
  /\ request' = NoRequest
  /\ response' = NoResponse
  /\ pc' = "exit"
  /\ UNCHANGED <<verbose, outputJSON, service, purl, purlString, result, stdout, email,
                 caller, ctxAtCall, calls, sent, stdoutFailed, args, showVersion,
                 exchanges, printErr, bodyRead>>

\* runWithService after printOutput has returned: its error is reported, or
\* success is; the deferred cancel runs.
runWithServiceReturn ==
  /\ pc = "printed"
  /\ IF ~printErr.isNil
     THEN /\ stderr' = stderr \o <<"Error: ">> \o printErr.text \o <<"\n">>
          /\ exitCode' = exitRuntimeError
     ELSE /\ stderr' = stderr
          /\ exitCode' = exitSuccess
  /\ ctx' = "released"
  /\ request' = NoRequest
  /\ response' = NoResponse
  /\ pc' = "exit"
  /\ UNCHANGED <<verbose, outputJSON, service, purl, purlString, result, stdout, email,
                 caller, ctxAtCall, calls, sent, stdoutFailed, args, showVersion,
                 exchanges, printErr, bodyRead>>

Next ==
  \/ run
  \/ callRunWithService
  \/ callGetPackageInfo
  \/ runWithServiceBegin
  \/ mockGetPackageInfo
  \/ GetPackageInfoRequest
  \/ ctxExpire
  \/ clientDoResponse
  \/ clientDoResponseBroken
  \/ clientDoError
  \/ GetPackageInfoResponse
  \/ runWithServiceError
  \/ runWithServiceOutput
  \/ runWithServiceReturn

Spec == Init /\ [][Next]_vars

\* The transport gives up a request whose context is done, and the decoder
\* comes to the end of a body or to the error of its Read: neither step is
\* put off for ever.
GetPackageInfoNext ==
  \/ callGetPackageInfo
  \/ GetPackageInfoRequest
  \/ ctxExpire
  \/ clientDoResponse
  \/ clientDoResponseBroken
  \/ clientDoError
  \/ GetPackageInfoResponse

\* One call of EcosystemsService.GetPackageInfo by a caller of its own.
LiveSpec ==
  /\ Init
  /\ [][GetPackageInfoNext]_vars
  /\ WF_vars(clientDoError)
  /\ WF_vars(GetPackageInfoResponse)

(***************************************************************************)
(* Properties.                                                             *)
(***************************************************************************)
\* EcosystemsService.GetPackageInfo has returned after the upstream answered.
Answered ==
  /\ pc = "returned"
  /\ service.kind = "EcosystemsService"
  /\ response.err.isNil
  /\ response.StatusCode # 0

\* GetPackageInfo has returned a PackageInfo built from a 200 answer.
Succeeded == Answered /\ result.err.isNil

\* The category of an error, read off what a caller can observe: the
\* sentinels it matches and the fixed part of its message.
Category(err) ==
  CASE err.isNil -> "none"
    [] errorsIs(err, ErrPackageNotFound) -> "NotFound"
    [] errorsIs(err, ErrInvalidResponse) -> "InvalidResponse"
    [] err.text[1] = "rate limited by API: HTTP 429" -> "RateLimited"
    [] err.text[1] = "API service unavailable: HTTP " -> "UpstreamUnavailable"
    [] err.text[1] = "API error: HTTP " -> "UpstreamError"
    [] err.text[1] = "failed to make HTTP request: " -> "TransportError"
    [] err.text[1] = "failed to create HTTP request: " -> "RequestError"
    [] OTHER -> "other"

\* The table of 4.2.
TableCategory(status) ==
  CASE status = 404 -> "NotFound"
    [] status = 429 -> "RateLimited"
    [] status \in {502, 503, 504} -> "UpstreamUnavailable"
    [] OTHER -> "UpstreamError"

\* s contains sub as a run of consecutive tokens.
Contains(s, sub) ==
  \E i \in 0..(Len(s) - Len(sub)) : SubSeq(s, i + 1, i + Len(sub)) = sub

\* C1: for every answer whose status is not 200, GetPackageInfo returns an
\* error whose category is the one the table gives for the status: 404 is
\* not-found (matching ErrPackageNotFound), 429 rate-limited, 502/503/504
\* service-unavailable, and every other status (201, 204, 500 included) the
\* generic API error, which carries the numeric status.
C1_StatusTaxonomy ==
  (Answered /\ response.StatusCode # StatusOK) =>
    /\ ~result.err.isNil
    /\ Category(result.err) = TableCategory(response.StatusCode)
    /\ (response.StatusCode = 404) = errorsIs(result.err, ErrPackageNotFound)
    /\ Category(result.err) = "UpstreamError" =>
         result.err.text[Len(result.err.text)] = ToString(response.StatusCode)

C1_Witness ==
  /\ Answered
  /\ response.StatusCode = 204
  /\ Category(result.err) = "UpstreamError"
  /\ result.err.text = <<"API error: HTTP ", "204">>

\* C2: a 200 answer whose body is the empty JSON array makes GetPackageInfo
\* fail with an error that matches ErrPackageNotFound and does not match
\* ErrInvalidResponse.
C2_EmptyArrayNotFound ==
  (Answered /\ response.StatusCode = StatusOK /\ response.Body = Body("array", <<>>)) =>
    /\ errorsIs(result.err, ErrPackageNotFound)
    /\ ~errorsIs(result.err, ErrInvalidResponse)

C2_Witness ==
  /\ Answered
  /\ response.StatusCode = StatusOK
  /\ response.Body = Body("array", <<>>)
  /\ result.err.text = <<"package not found", ": ">> \o PurlString(purl)

\* C3 (as claimed): a 200 answer whose body is malformed JSON or a JSON value
\* that is not an array makes GetPackageInfo fail with an error that matches
\* ErrInvalidResponse, wraps the decode error and does not match
\* ErrPackageNotFound.
C3_NonArrayInvalid ==
  (Answered /\ response.StatusCode = StatusOK
     /\ response.Body.kind \in {"malformed", "object", "null"}) =>
    /\ errorsIs(result.err, ErrInvalidResponse)
    /\ errorsIs(result.err, jsonDecode(response.Body).err)
    /\ ~errorsIs(result.err, ErrPackageNotFound)

\* C4 (as claimed): on every successful lookup the Ecosystem of the returned
\* PackageInfo is the type of the purl.
C4_EcosystemIsPurlType ==
  Succeeded => result.info.Ecosystem = purl.Type

\* The first element of the answered array.
FirstEntry == response.Body.elems[1]

\* The answer cut down to its first element.
FirstOnly == Response(response.StatusCode, Body("array", <<FirstEntry>>))

\* C5 (as claimed): for every 200 answer whose body is a JSON array with one
\* or more entries the returned PackageInfo is built from the first entry:
\* Name is its name, Version its latest_release_number, Licenses its
\* normalized_licenses in order, and the entries after the first have no
\* influence on what is returned.
C5_FirstEntryOnly ==
  (Answered /\ response.StatusCode = StatusOK /\ response.Body.kind = "array"
     /\ Len(response.Body.elems) >= 1) =>
    /\ result.info.Name = FirstEntry.name.s
    /\ result.info.Version = FirstEntry.latest_release_number.s
    /\ result.info.Licenses.elems = FirstEntry.normalized_licenses.a
    /\ result = handleResponse(purl, FirstOnly)

\* C5 (amended): for every 200 answer whose body decodes without error into
\* an array with one or more entries, the returned PackageInfo is built from
\* the first entry (Name, Version, Licenses in order) and is what the same
\* answer cut down to its first entry gives.
C5_FirstEntryOnlyWhenDecoded ==
  (Succeeded /\ Len(response.Body.elems) >= 1) =>
    /\ result.info.Name = FirstEntry.name.s
    /\ result.info.Version = FirstEntry.latest_release_number.s
    /\ result.info.Licenses.elems = FirstEntry.normalized_licenses.a
    /\ result = handleResponse(purl, FirstOnly)

C5_Witness ==
  /\ Succeeded
  /\ Len(response.Body.elems) = 2
  /\ response.Body.elems[2].name = JStr("other")
  /\ FirstEntry.normalized_licenses = JArr(<<"Apache-2.0", "MIT">>)
  /\ result.info.Name = "lodash"
  /\ result.info.Licenses = Slice(<<"Apache-2.0", "MIT">>)

\* C6 (as claimed): Licenses of a successfully returned PackageInfo is never
\* a nil slice; it is the empty sequence when the first entry omits
\* normalized_licenses or gives null.
C6_LicensesNeverNil ==
  Succeeded => ~result.info.Licenses.isNil

\* How an optional member of the first entry should arrive in PackageInfo.
OptionalCarried(member, field) ==
  IF member.t = "string" THEN field = stringPtr(member.s) ELSE field = NilPtr

\* C7 (as claimed): each of homepage, repository_url, description and
\* documentation_url of the first entry arrives in its PackageInfo field:
\* the string (an empty one included) when it is there, nil when the member
\* is absent or null.
C7_OptionalFieldsCarried ==
  (Succeeded /\ Len(response.Body.elems) >= 1 /\ FirstEntry.kind = "object") =>
    /\ OptionalCarried(FirstEntry.homepage, result.info.Homepage)
    /\ OptionalCarried(FirstEntry.repository_url, result.info.RepositoryURL)
    /\ OptionalCarried(FirstEntry.description, result.info.Description)
    /\ OptionalCarried(FirstEntry.documentation_url, result.info.DocumentationURL)

\* C8: a call of EcosystemsService.GetPackageInfo ends with a nil error and a
\* PackageInfo, or with an error and the zero PackageInfo; no failure path
\* hands out a partly filled PackageInfo.
C8_NoPartialResult ==
  (pc = "returned" /\ service.kind = "EcosystemsService") =>
    \/ result.err.isNil /\ Succeeded
    \/ ~result.err.isNil /\ result.info = ZeroPackageInfo

\* A decode failure that had already filled in the first element.
C8_Witness ==
  /\ Answered
  /\ response.StatusCode = StatusOK
  /\ errorsIs(result.err, jsonUnmarshalTypeError)
  /\ Len(jsonDecode(response.Body).results.elems) = 2
  /\ jsonDecode(response.Body).results.elems[1].Name = "lodash"
  /\ result.info = ZeroPackageInfo

\* C9: whenever the Service returned an error, runWithService returns
\* exitRuntimeError, whatever the error and whatever verbose and outputJSON.
C9_ErrorExitsRuntimeError ==
  (pc = "exit" /\ ~result.err.isNil) => exitCode = exitRuntimeError

C9_Witness ==
  /\ pc = "exit"
  /\ service.kind = "mockService"
  /\ errorsIs(result.err, ErrPackageNotFound)
  /\ verbose
  /\ outputJSON
  /\ exitCode = exitRuntimeError

genericMessage == "Error: Failed to get package info\n"
verboseHint == "Use -v flag for more details\n"

\* C10: after a failed lookup standard error holds the text of the error if
\* and only if verbose is set: without verbose it is the generic message and
\* the hint, the same for every error and without the text of the error;
\* with verbose it holds the text of the error and not the hint.
C10_DetailOnlyWhenVerbose ==
  (pc = "exit" /\ ~result.err.isNil) =>
    /\ verbose => Contains(stderr, result.err.text) /\ ~Contains(stderr, <<verboseHint>>)
    /\ ~verbose => stderr = <<genericMessage, verboseHint>>
                   /\ ~Contains(stderr, result.err.text)

C10_Witness ==
  /\ pc = "exit"
  /\ ~verbose
  /\ result.err.text = <<"specific error message">>
  /\ stderr = <<genericMessage, verboseHint>>

\* runWithService has ended with a Service double that returned its fixed
\* PackageInfo and a nil error.
DoubleSucceeded ==
  /\ pc = "exit"
  /\ caller = "runWithService"
  /\ service.kind = "mockService"
  /\ service.err.isNil

\* The text holds the string (the empty string is in every text).
Holds(text, str) == str = "" \/ \E i \in 1..Len(text) : text[i] = str

\* C11 (as stated): for every valid purl and every Service double returning
\* a fixed PackageInfo and a nil error, runWithService returns exitSuccess
\* and standard output contains the name, the version and every non-empty
\* license of that PackageInfo, in both output modes.
C11_OutputContainsFields ==
  DoubleSucceeded =>
    /\ exitCode = exitSuccess
    /\ Holds(stdout, service.info.Name)
    /\ Holds(stdout, service.info.Version)
    /\ \A i \in 1..Len(service.info.Licenses.elems) :
         Holds(stdout, service.info.Licenses.elems[i])

\* C11 (amended): provided standard output accepts everything written to
\* it, runWithService returns exitSuccess and standard output contains the
\* name, the version and every non-empty license: as they are in
\* human-readable mode, and in the encoder's JSON string encoding in JSON
\* mode.
C11_OutputContainsEncodedFields ==
  (DoubleSucceeded /\ ~stdoutFailed) =>
    LET enc(str) == IF outputJSON THEN jsonEscape(str) ELSE str IN
    /\ exitCode = exitSuccess
    /\ Holds(stdout, enc(service.info.Name))
    /\ Holds(stdout, enc(service.info.Version))
    /\ \A i \in 1..Len(service.info.Licenses.elems) :
         Holds(stdout, enc(service.info.Licenses.elems[i]))

\* A double's PackageInfo with two licenses and one whose strings the
\* encoder rewrites have both been rendered.
C11_Witness ==
  /\ DoubleSucceeded
  /\ ~stdoutFailed
  /\ outputJSON
  /\ service.info.Name = "R&D"
  /\ Holds(stdout, "MIT\\u0026BSD")
  /\ exitCode = exitSuccess

\* runWithService has written a whole JSON document to standard output.
Serialised ==
  /\ pc = "exit"
  /\ caller = "runWithService"
  /\ result.err.isNil
  /\ outputJSON
  /\ ~stdoutFailed

\* The four optional fields of a PackageInfo, with their JSON keys.
OptionalFields(info) ==
  {<<"homepage", info.Homepage>>, <<"repository_url", info.RepositoryURL>>,
   <<"description", info.Description>>, <<"documentation_url", info.DocumentationURL>>}

\* An optional field written as null when absent and as its string when
\* present, and read back as what it was.
OptionalKept(text, info) ==
  \A f \in OptionalFields(info) :
    /\ f[2].isNil => memberOf(jsonParse(text), f[1]) = JNull
    /\ ~f[2].isNil => memberOf(jsonParse(text), f[1]) = JStr(f[2].val)
    /\ f \in OptionalFields(jsonUnmarshal(text))

\* Every string of the PackageInfo is valid UTF-8.
AllValidUTF8(info) ==
  /\ utf8ValidString(info.Name)
  /\ utf8ValidString(info.Version)
  /\ utf8ValidString(info.Ecosystem)
  /\ \A i \in 1..Len(info.Licenses.elems) : utf8ValidString(info.Licenses.elems[i])
  /\ \A f \in OptionalFields(info) : f[2].isNil \/ utf8ValidString(f[2].val)

Rendered ==
  /\ pc = "exit"
  /\ caller = "runWithService"
  /\ result.err.isNil
  /\ ~outputJSON
  /\ ~stdoutFailed

\* The position of the token tok in the text (0 if it is not there), and
\* the first token after position i that is not a blank.
PositionOf(text, tok) ==
  IF \E i \in 1..Len(text) : text[i] = tok
  THEN CHOOSE i \in 1..Len(text) : text[i] = tok /\ \A j \in 1..(i - 1) : text[j] # tok
  ELSE 0
AfterBlanks(text, i) ==
  CHOOSE j \in (i + 1)..Len(text) : text[j] # " " /\ \A k \in (i + 1)..(j - 1) : text[k] = " "

\* The line of a label shows the value and ends there, or shows (none).
ShowsValue(text, label, val) ==
  /\ PositionOf(text, label) > 0
  /\ LET j == AfterBlanks(text, PositionOf(text, label)) IN
     text[j] = val /\ text[j + 1] = "\n"
ShowsNone(text, label) ==
  /\ PositionOf(text, label) > 0
  /\ text[AfterBlanks(text, PositionOf(text, label))] = "(none)\n"

\* C13: in human-readable mode the Licenses line shows the licenses joined
\* by ", " when there is at least one and the text (none) when the sequence
\* is empty or nil; each of Description, Homepage, RepositoryURL and
\* DocumentationURL shows its value when present and non-empty and the text
\* (none) when absent or empty.
C13_HumanReadableFields ==
  Rendered =>
    /\ IF Len(result.info.Licenses.elems) > 0
       THEN Contains(stdout, <<"Licenses:        ">>
                             \o stringsJoin(result.info.Licenses.elems, ", ") \o <<"\n">>)
       ELSE /\ Contains(stdout, <<"Licenses:        (none)\n">>)
            /\ PositionOf(stdout, "Licenses:        ") = 0
    /\ \A f \in {<<"Description:", result.info.Description>>,
                 <<"Homepage:", result.info.Homepage>>,
                 <<"RepositoryURL:", result.info.RepositoryURL>>,
                 <<"DocumentationURL:", result.info.DocumentationURL>>} :
         IF ~f[2].isNil /\ f[2].val # ""
         THEN ShowsValue(stdout, f[1], f[2].val)
         ELSE ShowsNone(stdout, f[1])

\* A PackageInfo with two licenses, an absent field and an empty one has
\* been rendered.
C13_Witness ==
  /\ Rendered
  /\ Len(result.info.Licenses.elems) = 2
  /\ result.info.Homepage.isNil
  /\ result.info.RepositoryURL = stringPtr("")
  /\ ShowsNone(stdout, "RepositoryURL:")

\* EcosystemsService.GetPackageInfo has returned from a call made with a
\* context that was already cancelled.
CalledCancelled ==
  /\ pc = "returned"
  /\ service.kind = "EcosystemsService"
  /\ ctxAtCall = "canceled"

\* C14: a call of EcosystemsService.GetPackageInfo with an already cancelled
\* context returns a non-nil error and no PackageInfo, whatever the endpoint
\* would answer; no response body is decoded.
C14_CancelledContextFails ==
  CalledCancelled =>
    /\ ~result.err.isNil
    /\ result.info = ZeroPackageInfo
    /\ (response = NoResponse \/ ~response.err.isNil)

\* Such a call has gone as far as client.Do and come back with the error of
\* the context.
C14_Witness ==
  /\ CalledCancelled
  /\ sent = 1
  /\ errorsIs(result.err, contextCanceled)
  /\ urlParse(service.baseURL).isNil

\* run() has been started without -version and with arguments that do not
\* pass its checks: none, more than one, or one that is no purl.
Rejected ==
  /\ caller = "run"
  /\ ~showVersion
  /\ (Len(args) # 1 \/ args = <<invalidArg>>)

\* Nothing of a resolution has happened: no Service, no call of
\* GetPackageInfo, no request.
NothingResolved == service = NoService /\ calls = 0 /\ sent = 0 /\ request = NoRequest

\* The four outcomes have four exit statuses.
ExitStatusesDistinct ==
  Cardinality({exitSuccess, exitInvalidArgs, exitInvalidPurl, exitRuntimeError}) = 4

LookupSucceeded ==
  /\ pc = "exit"
  /\ caller \in {"run", "runWithService"}
  /\ calls = 1
  /\ result.err.isNil

\* C16: if the Service succeeds and rendering fails (a write to standard
\* output fails), runWithService returns exitRuntimeError and writes a
\* diagnostic to standard error, in human-readable mode as in JSON mode; it
\* returns exitSuccess only when rendering went through without a failure.
C16_RenderFailureIsRuntimeError ==
  LookupSucceeded =>
    /\ stdoutFailed => (exitCode = exitRuntimeError /\ Holds(stderr, "Error: "))
    /\ exitCode = exitSuccess => ~stdoutFailed

\* run() or runWithService has ended in a failure outcome.
Failed ==
  /\ pc = "exit"
  /\ caller \in {"run", "runWithService"}
  /\ exitCode \in {exitInvalidArgs, exitInvalidPurl, exitRuntimeError}

\* The first words of the diagnostics the program writes.
DiagnosticHeads ==
  {"Error: purl argument is required\n\n",
   "Error: Too many arguments. Expected 1 purl, got ",
   "Error: Invalid purl format: ",
   "Error: Failed to get package info: ",
   "Error: Failed to get package info\n",
   "Error: "}
Diagnosed(text) == \E i \in 1..Len(text) : text[i] \in DiagnosticHeads

\* s is the beginning of t, and not all of it.
ProperPrefix(s, t) == Len(s) < Len(t) /\ s = SubSeq(t, 1, Len(s))

\* C17 (as stated): on every path that ends in a failure outcome the
\* diagnostics are on standard error and nothing is on standard output, no
\* part of a success-shaped output either.
C17_FailureWritesNoOutput ==
  Failed => (Diagnosed(stderr) /\ stdout = <<>>)

\* C17 (amended): on every path that ends in a failure outcome the
\* diagnostics are on standard error; nothing is on standard output when
\* the arguments, the purl or the lookup failed; when the JSON document
\* could not be written, standard output holds what the one failed write
\* let through, a beginning of the document short of its end, and nothing
\* when the write was refused.
C17_FailureWritesNoOutputButCutWrite ==
  Failed =>
    /\ Diagnosed(stderr)
    /\ (calls = 0 \/ ~result.err.isNil) => stdout = <<>>
    /\ (calls = 1 /\ result.err.isNil) =>
         /\ outputJSON
         /\ stdoutFailed
         /\ ProperPrefix(stdout, printJSONOutput(result.info))

\* A failed write of the JSON document has let a part of it through.
C17_Witness ==
  /\ Failed
  /\ result.err.isNil
  /\ outputJSON
  /\ Len(stdout) = 2
  /\ exitCode = exitRuntimeError

\* The identification header for a contact string.
Identification(contact) ==
  <<"User-Agent", <<"purlinfo/", version, " (mailto:", contact, ")">> >>

\* run() has come as far as sending the lookup request.
RequestMade == caller = "run" /\ pc \in {"Do", "Done", "returned"} /\ calls = 1

\* C18: with a contact string (email) configured the lookup request carries
\* the identification header purlinfo/<version> (mailto:<contact>); without
\* one it carries no identification.
C18_IdentificationHeader ==
  RequestMade =>
    /\ email # "" => \E i \in 1..Len(request.Header) : request.Header[i] = Identification(email)
    /\ email = "" => \A i \in 1..Len(request.Header) : request.Header[i][1] # "User-Agent"

\* EcosystemsService.GetPackageInfo has handed its request to client.Do.
RequestSent ==
  /\ pc = "Done"
  /\ service.kind = "EcosystemsService"
  /\ sent = 1

\* C19: the request GetPackageInfo sends uses GET, targets the base address
\* followed by the path /api/v1/packages/lookup, and has exactly one query
\* parameter, purl, whose percent-decoded value is purl.String(); the base
\* address is the production host when the BaseURL option is empty and the
\* BaseURL otherwise.
C19_RequestShape ==
  /\ \A b \in BaseURLs :
       NewEcosystemsService(b).baseURL = IF b = "" THEN "https://packages.ecosyste.ms" ELSE b
  /\ RequestSent =>
       /\ request.Method = "GET"
       /\ request.base = service.baseURL
       /\ caller = "run" => request.base = "https://packages.ecosyste.ms"
       /\ request.path = "/api/v1/packages/lookup"
       /\ ParseQuery(request.RawQuery) = << <<<<"purl">>, PurlString(purl)>> >>

\* A request for a purl with a percent-encoded name and two qualifiers has
\* been sent.
C19_Witness ==
  /\ RequestSent
  /\ purl.Name = "%40types/node"
  /\ Len(purl.Qualifiers) = 7
  /\ Len(ParseQuery(request.RawQuery)) = 1

\* GetPackageInfo has failed because of the network layer: client.Do
\* returned an error, or the body of a 200 answer broke off while it was
\* read (the deadline passed, the context was cancelled, the connection was
\* lost).
NetworkFailure ==
  /\ pc = "returned"
  /\ service.kind = "EcosystemsService"
  /\ sent = 1
  /\ \/ ~response.err.isNil
     \/ response.StatusCode = StatusOK /\ response.Body.kind = "broken"

\* What the network layer reported.
NetworkCause == IF ~response.err.isNil THEN response.err ELSE response.Body.readErr

\* C20: every failure of GetPackageInfo caused by the network layer, at any
\* moment of the call, is a transport error wrapping the underlying cause,
\* and is reported neither as ErrInvalidResponse nor as ErrPackageNotFound.
C20_NetworkFailureIsTransportError ==
  NetworkFailure =>
    /\ Category(result.err) = "TransportError"
    /\ errorsIs(result.err, NetworkCause)
    /\ ~errorsIs(result.err, ErrInvalidResponse)
    /\ ~errorsIs(result.err, ErrPackageNotFound)

\* EcosystemsService.GetPackageInfo has returned.
Returned == pc = "returned" /\ service.kind = "EcosystemsService"

\* The body of a 200 answer was cut short by the context.
BodyCutByContext ==
  /\ response.err.isNil
  /\ response.StatusCode = StatusOK
  /\ response.Body.kind = "broken"
  /\ response.Body.readErr \in {contextDeadlineExceeded, contextCanceled}

ContextObserved ==
  Returned =>
    /\ ~result.err.isNil => result.info = ZeroPackageInfo
    /\ ctxDone(ctxAtCall) =>
         /\ ~result.err.isNil
         /\ sent = 1 => (errorsIs(result.err, ctxErr(ctxAtCall))
                         /\ Category(result.err) = "TransportError")
    /\ (sent = 1 /\ response.err \in {contextDeadlineExceeded, contextCanceled}) =>
         /\ errorsIs(result.err, response.err)
         /\ Category(result.err) = "TransportError"
    /\ BodyCutByContext => errorsIs(result.err, response.Body.readErr)

\* A request in flight whose context is done comes back from client.Do with
\* the error of the context, and with nothing else.
DoneContextEndsDo ==
  (pc = "Do" /\ request.withContext /\ ctxDone(ctx) /\ pc' # "Do") =>
    (response'.err = ctxErr(ctx) /\ pc' = "Done")

Constructed == urlParse(service.baseURL).isNil

\* One resolve call per invocation and one client.Do per resolve call, at
\* every moment.
OneAttempt ==
  /\ calls <= 1
  /\ sent <= 1
  /\ (pc = "exit" /\ caller \in {"run", "runWithService"} /\ service # NoService) => calls = 1
  /\ (pc \in {"returned", "exit"} /\ service.kind = "EcosystemsService") =>
       sent = (IF Constructed THEN 1 ELSE 0)
  /\ service.kind = "mockService" => sent = 0

\* Once the resolve call has returned nothing more is called or sent.
NothingAfterReturn ==
  pc \in {"returned", "exit"} => (calls' = calls /\ sent' = sent /\ exchanges' = exchanges)

\* C22 (as stated): each invocation of runWithService calls GetPackageInfo
\* exactly once, each call of EcosystemsService.GetPackageInfo makes at most
\* one HTTP exchange (one request when the request could be constructed),
\* and after a failure nothing is sent or called again.
C22_OneAttemptOneExchange == OneAttempt /\ exchanges <= 1

\* C22 (amended): the same with one call of client.Do in place of one HTTP
\* exchange: within that call the client may follow redirects, each a
\* further exchange, and an answer received means one exchange at least.
C22_OneAttemptOneDo ==
  /\ []OneAttempt
  /\ [](exchanges <= MaxRedirects + 1)
  /\ []((pc \in {"Done", "returned"} /\ sent = 1 /\ response.err.isNil) => exchanges >= 1)
  /\ [](sent = 0 => exchanges = 0)
  /\ [][NothingAfterReturn]_vars

\* A lookup that was told to wait (429) has ended without a second request,
\* after the client had followed a redirect.
C22_Witness ==
  /\ pc = "exit"
  /\ caller = "run"
  /\ calls = 1
  /\ sent = 1
  /\ exchanges = 2
  /\ Category(result.err) = "RateLimited"

(***************************************************************************)
(* C23: the phases of one runWithService invocation.                       *)
(***************************************************************************)
\* The phase the invocation is in when control is at p: Idle before the
\* lookup is called, Resolving until runWithService has read what the lookup
\* returned, Rendering once printOutput has acted, and Done or Failed once
\* runWithService has returned.
Phase(p, failed) ==
  CASE p = "main" -> "NotInvoked"
    [] p = "runWithService" -> "Idle"
    [] p \in {"GetPackageInfo", "Do", "Done", "returned"} -> "Resolving"
    [] p = "printed" -> "Rendering"
    [] p = "exit" -> IF failed THEN "Failed" ELSE "Done"

\* runWithService has been entered in this execution.
Invoked ==
  /\ caller \in {"run", "runWithService"}
  /\ pc # "main"
  /\ service # NoService

PhaseEdges ==
  {<<"Idle", "Resolving">>, <<"Resolving", "Resolving">>, <<"Resolving", "Rendering">>,
   <<"Resolving", "Failed">>, <<"Rendering", "Done">>}

\* One step of an invocation: it follows an edge of the sequence, staying in
\* a phase only while the lookup is in progress; rendering is entered only
\* from a lookup that has returned without error, and standard output is
\* written by that step alone; the exit status is set only by the step that
\* ends the invocation, from Rendering or from a failed lookup.
PhaseStep ==
  Invoked =>
    LET from == Phase(pc, ~result.err.isNil)
        to   == Phase(pc', ~result'.err.isNil) IN
    /\ <<from, to>> \in PhaseEdges
    /\ (from = "Resolving" /\ to = "Resolving") => pc # "returned"
    /\ to = "Rendering" => (pc = "returned" /\ result.err.isNil)
    /\ stdout' # stdout => (from = "Resolving" /\ to = "Rendering")
    /\ exitCode' # exitCode =>
         /\ to \in {"Done", "Failed"}
         /\ from = "Rendering" \/ (pc = "returned" /\ ~result.err.isNil)
    /\ to \in {"Done", "Failed"} => exitCode' # -1

\* A lookup that returned an error is never rendered.
FailedNeverRenders ==
  (Invoked /\ pc \in {"returned", "printed", "exit"} /\ ~result.err.isNil) =>
    (pc # "printed" /\ stdout = <<>>)

\* Nothing runs after runWithService has returned.
Ended == Invoked /\ pc = "exit"

\* C23: each runWithService invocation goes Idle, Resolving, then either
\* Rendering and Done or Failed: rendering starts only after the lookup has
\* returned and only if it returned no error, the exit status is set only
\* after printOutput has returned (or the lookup failed), a failed lookup is
\* never rendered, and no phase is entered twice.
C23_SingleShotSequence ==
  /\ [][PhaseStep]_vars
  /\ []FailedNeverRenders
  /\ [][~Ended]_vars

\* Witness: an invocation has gone through Rendering to Done.
C23_Witness ==
  /\ Invoked
  /\ pc = "exit"
  /\ result.err.isNil
  /\ stdout # <<>>
  /\ exitCode = exitSuccess

(***************************************************************************)
(* C24: the context runWithService derives.                                *)
(***************************************************************************)
\* The context has been derived and cancel has not been called.
Unreleased == ctx \in {"active", "deadline", "canceled"}

\* The ways out of runWithService: after a resolver error, after a render
\* error, and after a render.
AfterResolverError == ~result.err.isNil
AfterRenderError == result.err.isNil /\ ~printErr.isNil
AfterRender == result.err.isNil /\ printErr.isNil

\* cancel is called by the step that leaves runWithService, and by no other.
ReleasedOnReturn ==
  (Invoked /\ ctx' # ctx /\ ctx' = "released") =>
    (pc \in {"returned", "printed"} /\ pc' = "exit")

\* C24: the context runWithService derives is released on every way out of
\* it (after a render, after a resolver error, after a render error), no
\* invocation has returned with its context unreleased, and the context is
\* not released before the lookup has returned: the lookup is called with,
\* and runs under, a context whose cancel has not been called.
C24_ContextReleasedOnExit ==
  /\ []((Invoked /\ pc = "exit" /\ AfterRender) => ctx = "released")
  /\ []((Invoked /\ pc = "exit" /\ AfterResolverError) => ctx = "released")
  /\ []((Invoked /\ pc = "exit" /\ AfterRenderError) => ctx = "released")
  /\ []((Invoked /\ pc # "exit") => (pc = "runWithService" \/ Unreleased))
  /\ []((Invoked /\ calls > 0) => ctxAtCall = "active")
  /\ [][ReleasedOnReturn]_vars

\* Witness: runWithService has returned after a render error, its context
\* released.
C24_Witness ==
  /\ Invoked
  /\ pc = "exit"
  /\ AfterRenderError
  /\ ctx = "released"

(***************************************************************************)
(* C25: the status is read before the body.                                *)
(***************************************************************************)
\* A valid array of one element.
oneElementArray ==
  Body("array", <<JObject(JStr("lodash"), JStr("4.17.21"), JArr(<<"MIT">>),
                          JAbsent, JAbsent, JAbsent, JAbsent)>>)

\* Bodies another response with the same status could carry.
OtherBodies ==
  {Body("empty", <<>>), Body("malformed", <<>>), Body("array", <<>>), oneElementArray,
   BrokenBody(connectionReset)}

\* The response about to be handled, with any other body, gives the same
\* result when its status is not 200.
SameForEveryBody ==
  (pc = "Done" /\ response.err.isNil /\ response.StatusCode # StatusOK) =>
    \A b \in OtherBodies :
      handleResponse(purl, Response(response.StatusCode, b)) = handleResponse(purl, response)

\* C25: the status code is read before the body. For a response whose
\* status is not 200 the result of GetPackageInfo is the zero PackageInfo and
\* the error of that status, whatever the body (a valid array of one element
\* and a body that cannot be read included), and the body is read only when
\* the status is 200.
C25_StatusBeforePayload ==
  /\ (Answered /\ response.StatusCode # StatusOK) =>
       /\ result = Result(ZeroPackageInfo, statusError(response.StatusCode))
       /\ ~bodyRead
  /\ SameForEveryBody
  /\ (bodyRead /\ pc # "exit") => (response.err.isNil /\ response.StatusCode = StatusOK)

\* Witness: a 404 response carrying a valid array of one element was
\* answered with the error of the status, the body unread.
C25_Witness ==
  /\ Answered
  /\ response.StatusCode = StatusNotFound
  /\ response.Body.kind = "array"
  /\ Len(response.Body.elems) = 1
  /\ jsonDecode(response.Body).err.isNil
  /\ result.err = statusError(StatusNotFound)
  /\ ~bodyRead

====
